---- MODULE Spec2Model ----
(***************************************************************************)
(* A model of the vacuum-cleaner simulation: the battery (agent/battery.py),*)
(* the grid (environment/grid.py), the weighted A* search and the step      *)
(* state machine of the agent (agent/vacuum.py) and the counters of the     *)
(* metrics recorder (utils/metrics.py).                                     *)
(*                                                                          *)
(* Three specifications share the variables:                                *)
(*   SpecBattery  a battery alone, driven by consume(amount) and charge();  *)
(*   SpecSearch   a_star as a function of grid, epsilon, start and goal;    *)
(*   Spec         an agent on an environment, driven by step().             *)
(* The variables a specification does not use keep their initial value.     *)
(*                                                                          *)
(* Cells are pairs <<x, y>>; the code's grid[y][x] is grid[<<x, y>>] here.  *)
(* Cell values are the code's: 0 clean, 1 dirty, -1 obstacle, 2 charger.    *)
(* epsilon is a float in the code; here it is kept in tenths (10 is 1.0),   *)
(* and so is the priority f of a frontier entry. Only multiples of 0.5 are  *)
(* used (the values of strategy_comparison.py), which floating point        *)
(* represents exactly, so integer comparison of tenths agrees with the      *)
(* code's float comparison.                                                 *)
(***************************************************************************)
EXTENDS Integers, Sequences, FiniteSets, TLC

VARIABLES
    battery,    \* Battery: capacity, current, drain_rate, charge_rate, total_consumed, charge_cycles
    size,       \* Environment.size
    grid,       \* Environment.grid
    x, y,       \* VaccumCleaner.x, .y
    cleaned,    \* VaccumCleaner.cleaned
    epsilon,    \* VaccumCleaner.epsilon, in tenths
    visited,    \* VaccumCleaner.visited
    path,       \* VaccumCleaner.path
    strategy,   \* VaccumCleaner.strategy
    metrics,    \* PerformanceMetrics: steps_taken, dirt_cleaned, decisions_made
    start,      \* a_star's argument start   (SpecSearch)
    goal,       \* a_star's argument goal    (SpecSearch)
    result,     \* a_star's return value     (SpecSearch)
    call        \* history: the last call made and how many calls were made

vars == <<battery, size, grid, x, y, cleaned, epsilon, visited, path, strategy,
          metrics, start, goal, result, call>>

agentVars == <<size, grid, x, y, cleaned, epsilon, visited, path, strategy, metrics>>
searchVars == <<start, goal, result>>

Min(a, b) == IF a < b THEN a ELSE b
Max(a, b) == IF a > b THEN a ELSE b
Abs(a) == IF a < 0 THEN -a ELSE a

-----------------------------------------------------------------------------
(* Bounds of the model.                                                    *)

MaxCapacity == 6        \* SpecBattery: capacities 1..MaxCapacity
MaxRate == 5            \* SpecBattery: drain and charge rates 1..MaxRate
MaxAmount == 3          \* SpecBattery: consume(amount) with amount in 0..MaxAmount
MaxCalls == 4           \* SpecBattery: number of calls in a run
MaxObstacles == 4       \* SpecSearch: at most MaxObstacles obstacle cells
MaxDirt == 2            \* Spec: at most MaxDirt cells are drawn dirty, for astar and optimized
MaxRandomDirt == 1      \* Spec: at most MaxRandomDirt cells are drawn dirty, for random
MaxSteps == 12          \* Spec: number of step() calls in a run of astar and optimized
MaxRandomSteps == 4     \* Spec: number of step() calls in a run of random
MaxCleans == 2          \* SpecClean: number of direct clean() calls in a run
MaxDefaultDirt == 1     \* SpecDefault: at most MaxDefaultDirt cells differ from no dirt or from all dirt
MaxDefaultSteps == 40   \* SpecDefault: number of step() calls in a run
MaxSlides == 1          \* SpecSlider: number of changes of the epsilon slider in a run

-----------------------------------------------------------------------------
(* Constants of the program.                                               *)

\* Environment.__init__(size=5, ...)
DefaultSize == 5
\* Environment.__init__: self.grid[2][2] = -1
ObstacleAt == 2
\* the smallest size Environment.__init__ accepts: grid[2][2] must exist
MinSize == ObstacleAt + 1

-----------------------------------------------------------------------------
(* agent/battery.py                                                        *)

\* Battery.__init__(capacity, drain_rate, charge_rate)
NewBattery(capacity, drain_rate, charge_rate) ==
    [capacity |-> capacity, current |-> capacity, drain_rate |-> drain_rate,
     charge_rate |-> charge_rate, total_consumed |-> 0, charge_cycles |-> 0]

\* Battery.consume(amount): the battery after the call
Consume_NoFloor(b, amount) ==
    [b EXCEPT !.current = b.current - amount,
              !.total_consumed = b.total_consumed + amount]

Consume_CountDrawn(b, amount) ==
    [b EXCEPT !.current = Max(0, b.current - amount),
              !.total_consumed = b.total_consumed + (b.current - Max(0, b.current - amount))]

Consume(b, amount) ==
    [b EXCEPT !.current = Max(0, b.current - amount),
              !.total_consumed = b.total_consumed + amount]

\* Battery.consume(): amount None stands for drain_rate
ConsumeDefault_ChargeRate(b) == Consume(b, b.charge_rate)

ConsumeDefault(b) == Consume(b, b.drain_rate)

\* Battery.consume's return value
ConsumeReturn(b, amount) == Consume(b, amount).current > 0

\* Battery.charge(): the battery after the call
Charge_CountEveryCall(b) ==
    [b EXCEPT !.current = Min(b.capacity, b.current + b.charge_rate),
              !.charge_cycles = b.charge_cycles + 1]

Charge(b) ==
    LET old_level == b.current
        new_level == Min(b.capacity, b.current + b.charge_rate)
    IN  [b EXCEPT !.current = new_level,
                  !.charge_cycles =
                      IF old_level < b.capacity /\ new_level = b.capacity
                      THEN b.charge_cycles + 1 ELSE b.charge_cycles]

\* Battery.needs_charging(threshold=20)
Threshold == 20
needs_charging_BelowHalf(b) == 2 * b.current <= b.capacity

needs_charging(b) == b.current <= Threshold

\* Battery.is_empty()
is_empty(b) == b.current <= 0

-----------------------------------------------------------------------------
(* environment/grid.py and the search of agent/vacuum.py                   *)

Cells(n) == (0..(n - 1)) \X (0..(n - 1))

\* The subsets of S of at most k elements.
RECURSIVE SubsetsUpTo(_, _)
SubsetsUpTo(S, k) ==
    IF k = 0 THEN {{}}
    ELSE LET smaller == SubsetsUpTo(S, k - 1)
         IN  smaller \cup { s \cup {e} : s \in smaller, e \in S }

\* the test of a_star and _random_step: 0 <= nx < size and 0 <= ny < size
InBounds(n, c) == 0 <= c[1] /\ c[1] < n /\ 0 <= c[2] /\ c[2] < n

\* VaccumCleaner.heuristic(a, b)
heuristic_Tripled(a, b) == 3 * (Abs(a[1] - b[1]) + Abs(a[2] - b[2]))

heuristic(a, b) == Abs(a[1] - b[1]) + Abs(a[2] - b[2])

\* the directions of a_star and _random_step: (0, 1), (0, -1), (1, 0), (-1, 0)
Directions == {<<0, 1>>, <<0, -1>>, <<1, 0>>, <<-1, 0>>}

\* Python's order on tuples (x, y)
CellLess(a, b) == a[1] < b[1] \/ (a[1] = b[1] /\ a[2] < b[2])

\* Python's order on lists of tuples
RECURSIVE PathLess(_, _)
PathLess(p, q) ==
    IF p = <<>> THEN q # <<>>
    ELSE IF q = <<>> THEN FALSE
    ELSE IF Head(p) = Head(q) THEN PathLess(Tail(p), Tail(q))
    ELSE CellLess(Head(p), Head(q))

\* Python's order on the frontier entries (f, g, current, path)
EntryLess_DeeperFirst(a, b) ==
    \/ a[1] < b[1]
    \/ a[1] = b[1] /\ a[2] > b[2]
    \/ a[1] = b[1] /\ a[2] = b[2] /\ CellLess(a[3], b[3])
    \/ a[1] = b[1] /\ a[2] = b[2] /\ a[3] = b[3] /\ PathLess(a[4], b[4])

EntryLess(a, b) ==
    \/ a[1] < b[1]
    \/ a[1] = b[1] /\ a[2] < b[2]
    \/ a[1] = b[1] /\ a[2] = b[2] /\ CellLess(a[3], b[3])
    \/ a[1] = b[1] /\ a[2] = b[2] /\ a[3] = b[3] /\ PathLess(a[4], b[4])

\* heapq.heappop: the least entry of the frontier. No two entries are equal
\* (a cell is expanded once, so no path is pushed twice), so the frontier is
\* a set and its least entry is unique.
heappop(open_set) ==
    CHOOSE e \in open_set : \A o \in open_set \ {e} : EntryLess(e, o)

\* the neighbours a_star pushes when it expands current (already in closed)
Neighbors_ThroughObstacles(g, n, current, closed) ==
    { nb \in { <<current[1] + d[1], current[2] + d[2]>> : d \in Directions } :
        InBounds(n, nb) /\ nb \notin closed }

Neighbors(g, n, current, closed) ==
    { nb \in { <<current[1] + d[1], current[2] + d[2]>> : d \in Directions } :
        InBounds(n, nb) /\ g[nb] # -1 /\ nb \notin closed }

\* the while loop of a_star
RECURSIVE a_star_loop(_, _, _, _, _, _)
a_star_loop(g, n, eps, to, open_set, closed) ==
    IF open_set = {} THEN <<>>
    ELSE
        LET e == heappop(open_set)
            rest == open_set \ {e}
            current == e[3]
        IN  IF current = to THEN Tail(e[4])
            ELSE IF current \in closed THEN a_star_loop(g, n, eps, to, rest, closed)
            ELSE
                LET closed2 == closed \cup {current}
                    g_new == e[2] + 1
                    pushed == { <<10 * g_new + eps * heuristic(nb, to), g_new, nb,
                                  Append(e[4], nb)>> :
                                nb \in Neighbors(g, n, current, closed2) }
                IN  a_star_loop(g, n, eps, to, rest \cup pushed, closed2)

\* VaccumCleaner.a_star(start, goal) on grid g of size n with epsilon eps
a_star_KeepStart(g, n, eps, from, to) ==
    LET r == a_star_loop(g, n, eps, to, {<<10 * heuristic(from, to), 0, from, <<from>>>>}, {})
    IN  IF r = <<>> /\ from # to THEN r ELSE <<from>> \o r

a_star(g, n, eps, from, to) ==
    a_star_loop(g, n, eps, to, {<<10 * heuristic(from, to), 0, from, <<from>>>>}, {})

\* for dx, dy in [(0, 1), (0, -1), (1, 0), (-1, 0)]
DirectionOrder == << <<0, 1>>, <<0, -1>>, <<1, 0>>, <<-1, 0>> >>

\* the entries a_star pushes when it expands the entry e, in the order of the
\* for loop
PushedInOrder(g, n, eps, to, e, closed) ==
    LET g_new == e[2] + 1
        at(i) == <<e[3][1] + DirectionOrder[i][1], e[3][2] + DirectionOrder[i][2]>>
        all == [i \in 1..Len(DirectionOrder) |->
                   <<10 * g_new + eps * heuristic(at(i), to), g_new, at(i),
                     Append(e[4], at(i))>>]
        Kept(en) == en[3] \in Neighbors(g, n, e[3], closed)
    IN  SelectSeq(all, Kept)

\* the while loop of a_star with a log of what it does: pops has, for every
\* heappop, the entry popped, the frontier it was popped from and whether
\* the entry was expanded; pushes has every entry pushed, in the order of
\* the heappush calls; found tells whether the goal was popped
RECURSIVE a_star_log_NoVisitedTest(_, _, _, _, _, _, _)
a_star_log_NoVisitedTest(g, n, eps, to, open_set, closed, log) ==
    IF open_set = {} THEN log
    ELSE
        LET e == heappop(open_set)
            rest == open_set \ {e}
            current == e[3]
            pop(expanded) == [entry |-> e, frontier |-> open_set, expanded |-> expanded]
        IN  IF current = to
            THEN [log EXCEPT !.pops = Append(@, pop(FALSE)), !.found = TRUE]
            ELSE
                LET closed2 == closed \cup {current}
                    pushed == PushedInOrder(g, n, eps, to, e, closed2)
                IN  a_star_log_NoVisitedTest(g, n, eps, to,
                               rest \cup { pushed[i] : i \in 1..Len(pushed) }, closed2,
                               [log EXCEPT !.pops = Append(@, pop(TRUE)),
                                           !.pushes = @ \o pushed])

RECURSIVE a_star_log(_, _, _, _, _, _, _)
a_star_log(g, n, eps, to, open_set, closed, log) ==
    IF open_set = {} THEN log
    ELSE
        LET e == heappop(open_set)
            rest == open_set \ {e}
            current == e[3]
            pop(expanded) == [entry |-> e, frontier |-> open_set, expanded |-> expanded]
        IN  IF current = to
            THEN [log EXCEPT !.pops = Append(@, pop(FALSE)), !.found = TRUE]
            ELSE IF current \in closed
            THEN a_star_log(g, n, eps, to, rest, closed,
                            [log EXCEPT !.pops = Append(@, pop(FALSE))])
            ELSE
                LET closed2 == closed \cup {current}
                    pushed == PushedInOrder(g, n, eps, to, e, closed2)
                IN  a_star_log(g, n, eps, to,
                               rest \cup { pushed[i] : i \in 1..Len(pushed) }, closed2,
                               [log EXCEPT !.pops = Append(@, pop(TRUE)),
                                           !.pushes = @ \o pushed])

\* the log of a_star(from, to) on grid g of size n with epsilon eps
a_star_logged(g, n, eps, from, to) ==
    LET first == <<10 * heuristic(from, to), 0, from, <<from>>>>
    IN  a_star_log(g, n, eps, to, {first}, {},
                   [pops |-> <<>>, pushes |-> <<first>>, found |-> FALSE])

\* the values of epsilon the program is run with, in tenths
EpsValues == {10, 15, 20}

-----------------------------------------------------------------------------
(* utils/metrics.py. Of the list decisions_made only the latest entry is    *)
(* kept (steps_taken counts the entries); cells_visited, battery_usage and  *)
(* the per-strategy table are not modelled.                                 *)

\* PerformanceMetrics.__init__
NewMetrics == [steps_taken |-> 0, dirt_cleaned |-> 0, decisions_made |-> <<>>]

\* PerformanceMetrics.record_step(position, battery_level, action, strategy)
record_step(m, position, battery_level, action, strat) ==
    [m EXCEPT !.steps_taken = m.steps_taken + 1,
              !.decisions_made = << [step |-> m.steps_taken + 1, position |-> position,
                                     action |-> action, battery |-> battery_level,
                                     strategy |-> strat] >>]

\* PerformanceMetrics.record_cleaning(strategy)
record_cleaning(m) == [m EXCEPT !.dirt_cleaned = m.dirt_cleaned + 1]

-----------------------------------------------------------------------------
(* environment/grid.py                                                      *)

\* Environment.__init__(size, dirt_prob): dirt is the set of cells the random
\* draw made dirty; the three special cells are then written in this order.
NewGrid(n, dirt) ==
    LET drawn == [c \in Cells(n) |-> IF c \in dirt THEN 1 ELSE 0]
        withStart == [drawn EXCEPT ![<<0, 0>>] = 0]
        withCharger == [withStart EXCEPT ![<<n - 1, n - 1>>] = 2]
    IN  [withCharger EXCEPT ![<<ObstacleAt, ObstacleAt>>] = -1]

\* Environment.get_dirty_cells(), as a set; the list is in the order RowLess
get_dirty_cells(g, n) == { c \in Cells(n) : g[c] = 1 }

\* the order of the list get_dirty_cells returns: by y, then by x
RowLess(a, b) == a[2] < b[2] \/ (a[2] = b[2] /\ a[1] < b[1])

-----------------------------------------------------------------------------
(* agent/vacuum.py: the agent. The movement phase of a step works on the    *)
(* record [x, y, path, battery] and returns it as the step leaves it.       *)

\* VaccumCleaner.__init__: self.epsilon = max(1.0, epsilon)
NewEpsilon_NoClamp(eps) == eps

NewEpsilon(eps) == Max(10, eps)

\* VaccumCleaner.__init__: self.charger_pos
charger_pos(n) == <<n - 1, n - 1>>

\* VaccumCleaner.get_nearest_dirty(dirty_cells): min() returns the first cell
\* of the list that has the least Manhattan distance
get_nearest_dirty(dirty_cells, px, py) ==
    CHOOSE c \in dirty_cells :
        \A o \in dirty_cells \ {c} :
            \/ heuristic(c, <<px, py>>) < heuristic(o, <<px, py>>)
            \/ heuristic(c, <<px, py>>) = heuristic(o, <<px, py>>) /\ RowLess(c, o)

\* VaccumCleaner._get_nearby_dirt(radius)[0]: the scan goes by dx, then dy,
\* and sorted() is stable, so the first cell is the one of least Manhattan
\* distance and, among those, the least in the order on (x, y)
ConserveRadius == 2
nearby_dirt_cells(g, n, px, py) ==
    { c \in Cells(n) : /\ Abs(c[1] - px) <= ConserveRadius
                       /\ Abs(c[2] - py) <= ConserveRadius
                       /\ g[c] = 1 }
nearby_dirt_first(g, n, px, py) ==
    LET nearby == nearby_dirt_cells(g, n, px, py)
    IN  CHOOSE c \in nearby :
            \A o \in nearby \ {c} :
                \/ heuristic(c, <<px, py>>) < heuristic(o, <<px, py>>)
                \/ heuristic(c, <<px, py>>) = heuristic(o, <<px, py>>) /\ CellLess(c, o)

\* widgets.Slider(ax_eps, "eps (Greedy)", 1.0, 5.0, valinit=initial_eps, valstep=0.1):
\* the range and the step of the slider, in hundredths
SliderValMin == 100
SliderValMax == 500
SliderValStep == 10

\* round(val, 1) of a slider value in hundredths, as a number of tenths
round_1(val) == (val + 5) \div 10

\* _upd(val): vacuum.epsilon = round(val, 1)
slider_upd(val) == round_1(val)

\* VaccumCleaner.clean at position; c holds the grid, the counter cleaned,
\* the metrics and the set visited
clean_CountEveryCall(c, position) ==
    [c EXCEPT !.grid = [c.grid EXCEPT ![position] = IF @ = 1 THEN 0 ELSE @],
              !.cleaned = c.cleaned + 1,
              !.metrics = record_cleaning(c.metrics),
              !.visited = c.visited \cup {position}]

clean_AnyCell(c, position) ==
    LET swept == IF c.grid[position] # 0
                 THEN [c EXCEPT !.grid = [c.grid EXCEPT ![position] = 0],
                                !.cleaned = c.cleaned + 1,
                                !.metrics = record_cleaning(c.metrics)]
                 ELSE c
    IN  [swept EXCEPT !.visited = swept.visited \cup {position}]

clean(c, position) ==
    LET swept == IF c.grid[position] = 1
                 THEN [c EXCEPT !.grid = [c.grid EXCEPT ![position] = 0],
                                !.cleaned = c.cleaned + 1,
                                !.metrics = record_cleaning(c.metrics)]
                 ELSE c
    IN  [swept EXCEPT !.visited = swept.visited \cup {position}]

Last(p) == p[Len(p)]

\* next_cell = self.path.pop(0); self.x, self.y = next_cell; self.battery.consume()
follow_path_NoPop(a) ==
    IF a.path # <<>>
    THEN [x |-> Head(a.path)[1], y |-> Head(a.path)[2], path |-> a.path,
          battery |-> ConsumeDefault(a.battery)]
    ELSE a

follow_path(a) ==
    IF a.path # <<>>
    THEN [x |-> Head(a.path)[1], y |-> Head(a.path)[2], path |-> Tail(a.path),
          battery |-> ConsumeDefault(a.battery)]
    ELSE a

\* VaccumCleaner._random_step with random.choice(directions) = d
random_step_NoObstacleTest(a, g, n, d) ==
    LET new == <<a.x + d[1], a.y + d[2]>>
    IN  IF InBounds(n, new)
        THEN [a EXCEPT !.x = new[1], !.y = new[2], !.battery = ConsumeDefault(a.battery)]
        ELSE a

random_step(a, g, n, d) ==
    LET new == <<a.x + d[1], a.y + d[2]>>
    IN  IF InBounds(n, new) /\ g[new] # -1
        THEN [a EXCEPT !.x = new[1], !.y = new[2], !.battery = ConsumeDefault(a.battery)]
        ELSE a

\* VaccumCleaner._astar_step
astar_step_PlanWhenBusy(a, g, n, eps) ==
    LET dirty_cells == get_dirty_cells(g, n)
        planned ==
            IF a.path # <<>> /\ dirty_cells # {}
            THEN [a EXCEPT !.path = a_star(g, n, eps, <<a.x, a.y>>,
                                           get_nearest_dirty(dirty_cells, a.x, a.y))]
            ELSE a
    IN  follow_path(planned)

astar_step(a, g, n, eps) ==
    LET dirty_cells == get_dirty_cells(g, n)
        planned ==
            IF a.path = <<>> /\ dirty_cells # {}
            THEN [a EXCEPT !.path = a_star(g, n, eps, <<a.x, a.y>>,
                                           get_nearest_dirty(dirty_cells, a.x, a.y))]
            ELSE a
    IN  follow_path(planned)

\* VaccumCleaner._optimized_step
ConserveBelow == 30
optimized_step_ConserveMoves(a, g, n, eps) ==
    IF a.battery.current < ConserveBelow
    THEN IF nearby_dirt_cells(g, n, a.x, a.y) # {}
         THEN LET target == nearby_dirt_first(g, n, a.x, a.y)
              IN  IF a.path = <<>> \/ Last(a.path) # target
                  THEN follow_path([a EXCEPT !.path = a_star(g, n, eps, <<a.x, a.y>>,
                                                              target)])
                  ELSE follow_path(a)
         ELSE a
    ELSE astar_step(a, g, n, eps)

optimized_step_ConserveAt30(a, g, n, eps) ==
    IF a.battery.current <= ConserveBelow
    THEN IF nearby_dirt_cells(g, n, a.x, a.y) # {}
         THEN LET target == nearby_dirt_first(g, n, a.x, a.y)
              IN  IF a.path = <<>> \/ Last(a.path) # target
                  THEN [a EXCEPT !.path = a_star(g, n, eps, <<a.x, a.y>>, target)]
                  ELSE a
         ELSE a
    ELSE astar_step(a, g, n, eps)

optimized_step(a, g, n, eps) ==
    IF a.battery.current < ConserveBelow
    THEN IF nearby_dirt_cells(g, n, a.x, a.y) # {}
         THEN LET target == nearby_dirt_first(g, n, a.x, a.y)
              IN  IF a.path = <<>> \/ Last(a.path) # target
                  THEN [a EXCEPT !.path = a_star(g, n, eps, <<a.x, a.y>>, target)]
                  ELSE a
         ELSE a
    ELSE astar_step(a, g, n, eps)

\* VaccumCleaner._handle_low_battery: the agent part
handle_low_battery_ConsumeAlways(a, g, n, eps) ==
    IF <<a.x, a.y>> = charger_pos(n)
    THEN [a EXCEPT !.battery = Charge(a.battery)]
    ELSE LET planned ==
                 IF a.path = <<>> \/ Last(a.path) # charger_pos(n)
                 THEN [a EXCEPT !.path = a_star(g, n, eps, <<a.x, a.y>>, charger_pos(n))]
                 ELSE a
         IN  IF planned.path # <<>> THEN follow_path(planned)
             ELSE [planned EXCEPT !.battery = ConsumeDefault(planned.battery)]

handle_low_battery(a, g, n, eps) ==
    IF <<a.x, a.y>> = charger_pos(n)
    THEN [a EXCEPT !.battery = Charge(a.battery)]
    ELSE LET planned ==
                 IF a.path = <<>> \/ Last(a.path) # charger_pos(n)
                 THEN [a EXCEPT !.path = a_star(g, n, eps, <<a.x, a.y>>, charger_pos(n))]
                 ELSE a
         IN  follow_path(planned)

\* VaccumCleaner._handle_low_battery: the metrics part
handle_low_battery_metrics_LevelBefore(m, a, n, strat) ==
    IF <<a.x, a.y>> = charger_pos(n)
    THEN record_step(m, <<a.x, a.y>>, a.battery.current, "charging", strat)
    ELSE m

handle_low_battery_metrics(m, a, n, strat) ==
    IF <<a.x, a.y>> = charger_pos(n)
    THEN record_step(m, <<a.x, a.y>>, Charge(a.battery).current, "charging", strat)
    ELSE m

\* the test at the head of VaccumCleaner.step
low_battery_override_AlsoRandom(b, strat) == needs_charging(b)

low_battery_override(b, strat) == needs_charging(b) /\ strat # "random"

-----------------------------------------------------------------------------
(* The history variable and the values of the variables a specification     *)
(* leaves alone. Of the history, occupied is the set of the cells the agent *)
(* has stood on, the start included, and low tells whether the battery      *)
(* level has been at or below the threshold.                                *)

NoCall == [op |-> "none", amount |-> 0, n |-> 0, nConsume |-> 0, requested |-> 0,
           amounts |-> {}, cleans |-> 0, slides |-> 0, occupied |-> {<<0, 0>>},
           low |-> FALSE]

IdleAgent ==
    /\ size = 0 /\ grid = <<>> /\ x = 0 /\ y = 0 /\ cleaned = 0 /\ epsilon = 10
    /\ visited = {} /\ path = <<>> /\ strategy = "none"
    /\ metrics = NewMetrics
IdleSearch == start = <<0, 0>> /\ goal = <<0, 0>> /\ result = <<>>

-----------------------------------------------------------------------------
(* Spec: an agent on an environment, driven by step().                      *)

Agent == [x |-> x, y |-> y, path |-> path, battery |-> battery]

\* what clean() reads and writes
Cleaning == [grid |-> grid, cleaned |-> cleaned, metrics |-> metrics, visited |-> visited]

StepCall ==
    [call EXCEPT !.op = "step", !.n = call.n + 1,
                 !.occupied = call.occupied \cup {<<x', y'>>},
                 !.low = call.low \/ battery'.current <= Threshold]

\* step() of an agent whose strategy is strat ("astar" or "optimized"), as a
\* function of the state: what the step leaves in [x, y, path, battery] and
\* in [grid, cleaned, metrics, visited]
step_of(strat) ==
    IF low_battery_override(battery, strat)
    THEN [agent |-> handle_low_battery(Agent, grid, size, epsilon),
          room |-> [Cleaning EXCEPT !.metrics =
                       handle_low_battery_metrics(metrics, Agent, size, strat)]]
    ELSE LET a == IF strat = "astar" THEN astar_step(Agent, grid, size, epsilon)
                                     ELSE optimized_step(Agent, grid, size, epsilon)
         IN  [agent |-> a,
              room |-> clean([Cleaning EXCEPT !.metrics =
                                 record_step(metrics, <<a.x, a.y>>, a.battery.current,
                                             "move", strat)],
                             <<a.x, a.y>>)]

\* step(), low battery: _handle_low_battery(); return
StepLowBattery ==
    /\ call.n < (IF strategy = "random" THEN MaxRandomSteps ELSE MaxSteps)
    /\ low_battery_override(battery, strategy)
    /\ \E a \in {handle_low_battery(Agent, grid, size, epsilon)} :
           /\ x' = a.x /\ y' = a.y /\ path' = a.path /\ battery' = a.battery
           /\ metrics' = handle_low_battery_metrics(metrics, Agent, size, strategy)
    /\ call' = StepCall
    /\ UNCHANGED <<size, grid, cleaned, epsilon, visited, strategy, start, goal, result>>

\* step(), after the strategy has moved the agent to a: record_step, clean()
RecordAndClean(a) ==
    /\ x' = a.x /\ y' = a.y /\ path' = a.path /\ battery' = a.battery
    /\ \E c \in {clean([Cleaning EXCEPT !.metrics =
                            record_step(metrics, <<a.x, a.y>>, a.battery.current,
                                        "move", strategy)],
                       <<a.x, a.y>>)} :
           grid' = c.grid /\ cleaned' = c.cleaned /\ metrics' = c.metrics
                          /\ visited' = c.visited
    /\ call' = StepCall
    /\ UNCHANGED <<size, epsilon, strategy, start, goal, result>>

\* step() with strategy "random"; d is what random.choice returns
StepRandom(d) ==
    /\ call.n < MaxRandomSteps
    /\ ~low_battery_override(battery, strategy)
    /\ strategy = "random"
    /\ \E a \in {random_step(Agent, grid, size, d)} : RecordAndClean(a)

\* step() with strategy "astar"
StepAstar ==
    /\ call.n < MaxSteps
    /\ ~low_battery_override(battery, strategy)
    /\ strategy = "astar"
    /\ \E a \in {astar_step(Agent, grid, size, epsilon)} : RecordAndClean(a)

\* step() with strategy "optimized"
StepOptimized ==
    /\ call.n < MaxSteps
    /\ ~low_battery_override(battery, strategy)
    /\ strategy = "optimized"
    /\ \E a \in {optimized_step(Agent, grid, size, epsilon)} : RecordAndClean(a)

\* The sizes Environment is built with, and the values of epsilon given to
\* VaccumCleaner (0.5 is below the floor).
GridSizes == MinSize..DefaultSize
EpsInputs == {5} \cup EpsValues

\* Battery(): capacity=100, drain_rate=1, charge_rate=5
DefaultCapacity == 100
DefaultDrainRate == 1
DefaultChargeRate == 5

\* The batteries an agent starts with: the default one, full, and batteries
\* set to a level before the first step the way the low-battery test of the
\* specification does (capacity 20, current 15).
AgentBatteries ==
    { [NewBattery(cc[1], DefaultDrainRate, DefaultChargeRate) EXCEPT !.current = cc[2]] :
        cc \in {<<DefaultCapacity, DefaultCapacity>>, <<DefaultCapacity, 31>>,
                <<DefaultCapacity, 21>>, <<20, 15>>, <<DefaultCapacity, 2>>} }

Init ==
    /\ size \in GridSizes
    /\ strategy \in {"random", "astar", "optimized"}
    /\ \E dirt \in SubsetsUpTo(Cells(size), IF strategy = "random" THEN MaxRandomDirt
                                                                     ELSE MaxDirt) :
           grid = NewGrid(size, dirt)
    /\ \E eps \in (IF strategy = "astar" THEN EpsInputs ELSE {10}) :
           epsilon = NewEpsilon(eps)
    /\ battery \in AgentBatteries
    /\ x = 0 /\ y = 0 /\ cleaned = 0 /\ visited = {} /\ path = <<>>
    /\ metrics = NewMetrics
    /\ IdleSearch
    /\ call = [NoCall EXCEPT !.low = battery.current <= Threshold]

Next ==
    \/ StepLowBattery
    \/ \E d \in Directions : StepRandom(d)
    \/ StepAstar
    \/ StepOptimized

Spec == Init /\ [][Next]_vars

-----------------------------------------------------------------------------
(* SpecClean: the agent of Spec on the environments with at most one dirty *)
(* cell, with clean() also called directly, before or after any step, up   *)
(* to MaxCleans times in a run.                                             *)

\* clean()
CallClean ==
    /\ call.cleans < MaxCleans
    /\ \E c \in {clean(Cleaning, <<x, y>>)} :
           grid' = c.grid /\ cleaned' = c.cleaned /\ metrics' = c.metrics
                          /\ visited' = c.visited
    /\ call' = [call EXCEPT !.op = "clean", !.cleans = call.cleans + 1]
    /\ UNCHANGED <<battery, size, x, y, epsilon, path, strategy, start, goal, result>>

NextClean ==
    \/ Next
    \/ CallClean

InitClean ==
    /\ Init
    /\ Cardinality(get_dirty_cells(grid, size)) <= 1

SpecClean == InitClean /\ [][NextClean]_vars

-----------------------------------------------------------------------------
(* SpecTarget: an astar agent with the default battery, full, on a grid set *)
(* up without obstacles and with one dirty cell; the variable goal keeps    *)
(* that cell.                                                               *)

\* a grid of n x n clean cells with the charger in its corner, in which the
\* cell dirt is then set to 1
TargetGrid(n, dirt) ==
    [c \in Cells(n) |-> IF c = dirt THEN 1
                        ELSE IF c = <<n - 1, n - 1>> THEN 2 ELSE 0]

InitTarget ==
    /\ size \in GridSizes
    /\ strategy = "astar"
    /\ \E dirt \in Cells(size) : grid = TargetGrid(size, dirt) /\ goal = dirt
    /\ \E eps \in EpsInputs : epsilon = NewEpsilon(eps)
    /\ battery = NewBattery(DefaultCapacity, DefaultDrainRate, DefaultChargeRate)
    /\ x = 0 /\ y = 0 /\ cleaned = 0 /\ visited = {} /\ path = <<>>
    /\ metrics = NewMetrics
    /\ start = <<0, 0>> /\ result = <<>>
    /\ call = NoCall

NextTarget == StepAstar

SpecTarget == InitTarget /\ [][NextTarget]_vars

-----------------------------------------------------------------------------
(* SpecSlider: the run of the GUI path: an astar agent with the default     *)
(* battery on a DefaultSize environment with at most one dirty cell, whose  *)
(* epsilon slider is moved up to MaxSlides times, before or after any step. *)

\* the values the slider is moved to: its first, its middle and its last
\* position
SliderPositions ==
    { SliderValMin,
      SliderValMin + ((SliderValMax - SliderValMin) \div (2 * SliderValStep)) * SliderValStep,
      SliderValMax }

InitSlider ==
    /\ size = DefaultSize
    /\ strategy = "astar"
    /\ \E dirt \in Cells(size) : grid = NewGrid(size, {dirt})
    /\ \E eps \in EpsInputs : epsilon = NewEpsilon(eps)
    /\ battery = NewBattery(DefaultCapacity, DefaultDrainRate, DefaultChargeRate)
    /\ x = 0 /\ y = 0 /\ cleaned = 0 /\ visited = {} /\ path = <<>>
    /\ metrics = NewMetrics
    /\ IdleSearch
    /\ call = NoCall

\* the slider is moved to val: on_changed calls _upd(val)
SliderChanged(val) ==
    /\ call.slides < MaxSlides
    /\ epsilon' = slider_upd(val)
    /\ call' = [call EXCEPT !.op = "slider", !.slides = call.slides + 1]
    /\ UNCHANGED <<battery, size, grid, x, y, cleaned, visited, path, strategy, metrics,
                   start, goal, result>>

NextSlider ==
    \/ StepAstar
    \/ \E val \in SliderPositions : SliderChanged(val)

SpecSlider == InitSlider /\ [][NextSlider]_vars

-----------------------------------------------------------------------------
(* SpecDefault: an astar or optimized agent with the default battery, full, *)
(* on the DefaultSize environment, with step() called again and again. The  *)
(* dirt placements are those with at most MaxDefaultDirt dirty cells and    *)
(* those with all but at most MaxDefaultDirt cells dirty; epsilon is taken  *)
(* from the positions of the slider.                                        *)

DefaultDirt ==
    LET few == SubsetsUpTo(Cells(DefaultSize), MaxDefaultDirt)
    IN  few \cup { Cells(DefaultSize) \ d : d \in few }

InitDefault ==
    /\ size = DefaultSize
    /\ strategy \in {"astar", "optimized"}
    /\ \E dirt \in DefaultDirt : grid = NewGrid(size, dirt)
    /\ \E val \in (IF strategy = "astar" THEN SliderPositions ELSE {SliderValMin}) :
           epsilon = NewEpsilon(slider_upd(val))
    /\ battery = NewBattery(DefaultCapacity, DefaultDrainRate, DefaultChargeRate)
    /\ x = 0 /\ y = 0 /\ cleaned = 0 /\ visited = {} /\ path = <<>>
    /\ metrics = NewMetrics
    /\ IdleSearch
    /\ call = NoCall

\* step()
StepDefault ==
    /\ call.n < MaxDefaultSteps
    /\ \E s \in {step_of(strategy)} :
           /\ x' = s.agent.x /\ y' = s.agent.y /\ path' = s.agent.path
           /\ battery' = s.agent.battery
           /\ grid' = s.room.grid /\ cleaned' = s.room.cleaned
           /\ metrics' = s.room.metrics /\ visited' = s.room.visited
    /\ call' = StepCall
    /\ UNCHANGED <<size, epsilon, strategy, start, goal, result>>

NextDefault == StepDefault

\* a step() call is made, as the history variable shows it
StepMade ==
    /\ call.n < MaxDefaultSteps
    /\ \E pos \in Cells(size), lvl \in BOOLEAN :
           call' = [call EXCEPT !.op = "step", !.n = call.n + 1,
                                !.occupied = call.occupied \cup {pos}, !.low = lvl]

\* the loop that drives the agent calls step() again and again: a step that
\* can be made is made
SpecDefault == InitDefault /\ [][NextDefault]_vars /\ WF_call(StepMade)

-----------------------------------------------------------------------------
(* SpecBattery: a battery of any small configuration under any sequence of *)
(* consume(amount) and charge() calls.                                     *)

InitBattery ==
    /\ \E capacity \in 1..MaxCapacity, drain_rate \in 1..MaxRate, charge_rate \in 1..MaxRate :
           battery = NewBattery(capacity, drain_rate, charge_rate)
    /\ IdleAgent /\ IdleSearch
    /\ call = NoCall

BatteryConsume(amount) ==
    /\ call.n < MaxCalls
    /\ battery' = Consume(battery, amount)
    /\ call' = [op |-> "consume", amount |-> amount, n |-> call.n + 1,
                nConsume |-> call.nConsume + 1,
                requested |-> call.requested + amount,
                amounts |-> call.amounts \cup {amount}, cleans |-> 0, slides |-> 0,
                occupied |-> call.occupied, low |-> call.low]
    /\ UNCHANGED <<agentVars, searchVars>>

BatteryConsumeDefault ==
    /\ call.n < MaxCalls
    /\ battery' = ConsumeDefault(battery)
    /\ call' = [op |-> "consume", amount |-> battery.drain_rate, n |-> call.n + 1,
                nConsume |-> call.nConsume + 1,
                requested |-> call.requested + battery.drain_rate,
                amounts |-> call.amounts \cup {battery.drain_rate}, cleans |-> 0,
                slides |-> 0, occupied |-> call.occupied, low |-> call.low]
    /\ UNCHANGED <<agentVars, searchVars>>

BatteryCharge ==
    /\ call.n < MaxCalls
    /\ battery' = Charge(battery)
    /\ call' = [call EXCEPT !.op = "charge", !.amount = 0, !.n = call.n + 1]
    /\ UNCHANGED <<agentVars, searchVars>>

NextBattery ==
    \/ \E amount \in 0..MaxAmount : BatteryConsume(amount)
    \/ BatteryConsumeDefault
    \/ BatteryCharge

SpecBattery == InitBattery /\ [][NextBattery]_vars

-----------------------------------------------------------------------------
(* SpecConfig: SpecBattery with the capacity drawn from the integers of     *)
(* either sign, zero included.                                              *)

InitConfig ==
    /\ \E capacity \in (0 - MaxAmount)..MaxAmount, drain_rate \in 1..MaxRate,
          charge_rate \in 1..MaxRate :
           battery = NewBattery(capacity, drain_rate, charge_rate)
    /\ IdleAgent /\ IdleSearch
    /\ call = NoCall

SpecConfig == InitConfig /\ [][NextBattery]_vars

-----------------------------------------------------------------------------
(* SpecSearch: a_star applied once to a grid, an epsilon, a start and a     *)
(* goal. The grids are every MinSize x MinSize grid with at most            *)
(* MaxObstacles obstacle cells, and the DefaultSize x DefaultSize grids     *)
(* with the obstacle sets DefaultSizeObstacles.                             *)

ObstacleGrid(n, obstacles) == [c \in Cells(n) |-> IF c \in obstacles THEN -1 ELSE 0]

\* Obstacle sets of the DefaultSize grids: none, the obstacle of Environment,
\* and two sets with which a search with epsilon above 1.0 has a shortest
\* route and a longer one to choose from.
DefaultSizeObstacles ==
    { {}, {<<ObstacleAt, ObstacleAt>>}, {<<0, 1>>, <<1, 3>>},
      {<<0, 1>>, <<1, 3>>, <<ObstacleAt, ObstacleAt>>} }

SearchInputs ==
    { <<MinSize, ObstacleGrid(MinSize, obs)>> :
        obs \in SubsetsUpTo(Cells(MinSize), MaxObstacles) }
    \cup { <<DefaultSize, ObstacleGrid(DefaultSize, obs)>> : obs \in DefaultSizeObstacles }

InitSearch ==
    /\ \E in \in SearchInputs :
          /\ size = in[1]
          /\ grid = in[2]
          /\ \E from, to \in { c \in Cells(in[1]) : in[2][c] # -1 } :
                start = from /\ goal = to
    /\ epsilon \in EpsValues
    /\ result = <<>>
    /\ x = 0 /\ y = 0 /\ cleaned = 0 /\ visited = {} /\ path = <<>>
    /\ strategy = "none"
    /\ metrics = NewMetrics
    /\ battery = NewBattery(1, 1, 1)
    /\ call = NoCall

RunSearch ==
    /\ call.op = "none"
    /\ result' = a_star(grid, size, epsilon, start, goal)
    /\ call' = [call EXCEPT !.op = "a_star", !.n = 1]
    /\ UNCHANGED <<battery, size, grid, x, y, cleaned, epsilon, visited, path,
                   strategy, metrics, start, goal>>

NextSearch == RunSearch

SpecSearch == InitSearch /\ [][NextSearch]_vars

\* Two cells are 4-adjacent.
Adjacent(a, b) ==
    \/ a[1] = b[1] /\ Abs(a[2] - b[2]) = 1
    \/ a[2] = b[2] /\ Abs(a[1] - b[1]) = 1

\* The free cells 4-adjacent to a cell of the set S.
FreeAround(g, n, S) ==
    { c \in UNION { { <<s[1] - 1, s[2]>>, <<s[1] + 1, s[2]>>,
                      <<s[1], s[2] - 1>>, <<s[1], s[2] + 1>> } : s \in S } :
        c \in Cells(n) /\ g[c] # -1 }

\* Breadth-first distance from the cells of frontier (at distance d) to the
\* cell to, through free cells; -1 when to is not reachable.
RECURSIVE BfsFrom(_, _, _, _, _, _)
BfsFrom(g, n, to, frontier, seen, d) ==
    IF to \in frontier THEN d
    ELSE IF frontier = {} THEN -1
    ELSE LET around == FreeAround(g, n, frontier)
         IN  BfsFrom(g, n, to, around \ seen, seen \cup around, d + 1)

BfsDistance(g, n, from, to) == BfsFrom(g, n, to, {from}, {from}, 0)

Searched == call.op = "a_star"

\* C4: a non-empty result of a_star does not begin with start, ends with goal,
\* begins with a cell 4-adjacent to start, moves between 4-adjacent cells only
\* and contains only in-bounds cells that are not obstacles.
C4_PathShape ==
    Searched /\ result # <<>> =>
        /\ result[1] # start
        /\ result[Len(result)] = goal
        /\ Adjacent(start, result[1])
        /\ \A i \in 1..(Len(result) - 1) : Adjacent(result[i], result[i + 1])
        /\ \A i \in 1..Len(result) : InBounds(size, result[i]) /\ grid[result[i]] # -1

\* C4 witness: a path of at least 4 cells was returned on a grid with an
\* obstacle, for an epsilon above 1.
C4_Witness ==
    /\ Searched /\ Len(result) >= 4 /\ epsilon > 10
    /\ \E c \in Cells(size) : grid[c] = -1

\* C5: for epsilon = 1.0, when the goal is reachable the returned path is as
\* long as the breadth-first distance from start to goal, which is the
\* Manhattan distance on a grid without obstacles.
C5_Optimal ==
    Searched /\ epsilon = 10 /\ BfsDistance(grid, size, start, goal) >= 0 =>
        /\ Len(result) = BfsDistance(grid, size, start, goal)
        /\ (\A c \in Cells(size) : grid[c] # -1) =>
               Len(result) = Abs(start[1] - goal[1]) + Abs(start[2] - goal[2])

\* C5 witness: on the 5 x 5 grid without obstacles the path from (0, 0) to
\* (4, 4) for epsilon 1.0 has 8 cells.
C5_Witness ==
    /\ Searched /\ epsilon = 10 /\ size = 5
    /\ \A c \in Cells(size) : grid[c] # -1
    /\ start = <<0, 0>> /\ goal = <<4, 4>>
    /\ Len(result) = 8

\* C5 witness of a detour: the goal is reachable only by a path longer than
\* the Manhattan distance, and a_star returned a path of that length.
C5_WitnessDetour ==
    /\ Searched /\ epsilon = 10
    /\ Len(result) > Abs(start[1] - goal[1]) + Abs(start[2] - goal[2])

\* C6: a_star returns the empty sequence exactly when start = goal or the
\* goal is not reachable from start through free cells.
C6_EmptyResult ==
    Searched =>
        (result = <<>> <=>
            (start = goal \/ BfsDistance(grid, size, start, goal) = -1))

\* C6 witness: every in-bounds neighbour of the goal is an obstacle, the
\* goal is not the start, and the result is empty.
C6_Witness ==
    /\ Searched /\ start # goal /\ result = <<>>
    /\ \A c \in Cells(size) : Adjacent(c, goal) => grid[c] = -1

\* C6 witness with the goal enclosed on all 4 sides.
C6_WitnessFourSides ==
    /\ C6_Witness
    /\ Cardinality({ c \in Cells(size) : Adjacent(c, goal) }) = 4

-----------------------------------------------------------------------------
(* Claims about the battery (SpecBattery).                                 *)

\* C1: after every consume(amount >= 0) and charge() call on a battery that
\* was created full, 0 <= current <= capacity.
C1_BatteryInvariant ==
    /\ 0 <= battery.current
    /\ battery.current <= battery.capacity

\* C1 witness: only consume calls were made, more was requested than the
\* battery held, and the level was floored at 0.
C1_Witness ==
    /\ call.op = "consume" /\ call.n = call.nConsume
    /\ call.requested > battery.capacity
    /\ battery.current = 0

\* C2: a charge() call increments charge_cycles by exactly 1 if the level was
\* strictly below capacity before the call and equals capacity after it, and
\* leaves charge_cycles unchanged in every other case.
C2_ChargeCycleCounting ==
    [][call'.op = "charge" /\ call'.n = call.n + 1 =>
         LET fullRecharge == /\ battery.current < battery.capacity
                             /\ battery'.current = battery'.capacity
         IN  battery'.charge_cycles =
                 battery.charge_cycles + (IF fullRecharge THEN 1 ELSE 0)]_vars

\* C2 witness: with charge_rate 5, one consume(1) and two charge() calls were
\* made (one of them from capacity - 1, the other while full) and exactly one
\* cycle was counted.
C2_Witness ==
    /\ call.op = "charge" /\ call.n = 3 /\ call.nConsume = 1 /\ call.requested = 1
    /\ battery.charge_rate = 5
    /\ battery.current = battery.capacity
    /\ battery.charge_cycles = 1

\* C3: total_consumed is the sum of the amounts requested (N * a after N calls
\* consume(a)), whatever charge() calls were interleaved and also when the
\* level was floored at 0; it never decreases and charge() leaves it unchanged.
C3_ConsumeAccounting ==
    /\ [](/\ battery.total_consumed = call.requested
          /\ \A a \in call.amounts :
                 call.amounts = {a} => battery.total_consumed = call.nConsume * a)
    /\ [][/\ battery'.total_consumed >= battery.total_consumed
          /\ (call'.op = "charge" /\ call'.n = call.n + 1
                 => battery'.total_consumed = battery.total_consumed)]_vars

\* C3 witness: consume(a) was called at least twice with the same a > 0, with
\* a charge() in between or around, the level is floored at 0 and more was
\* requested in total than the capacity.
C3_Witness ==
    /\ call.op = "consume" /\ call.nConsume >= 2 /\ call.n > call.nConsume
    /\ \E a \in 1..MaxAmount : call.amounts = {a}
    /\ battery.current = 0
    /\ call.requested > battery.capacity
    /\ battery.total_consumed = call.requested

-----------------------------------------------------------------------------
(* Claims about the agent (Spec).                                          *)

Position == <<x, y>>
Stepped == call'.op = "step" /\ call'.n = call.n + 1
BatteryAware == strategy \in {"astar", "optimized"}

\* C7: for every strategy and after any number of step() calls the position
\* is inside the grid and is not an obstacle cell.
C7_PositionSafe ==
    /\ InBounds(size, Position)
    /\ grid[Position] # -1

\* C7 witness: a random agent next to the obstacle, one of whose steps was
\* refused (fewer moves were paid for than steps were made).
C7_Witness ==
    /\ strategy = "random" /\ call.op = "step"
    /\ Adjacent(Position, <<ObstacleAt, ObstacleAt>>)
    /\ battery.total_consumed < call.n

\* C8: a step() of an astar or optimized agent whose level is <= 20 seeks the
\* charger: at the charger it charges in place; elsewhere it moves one cell
\* along a path that ends at the charger (or stays, with no path, when the
\* charger cannot be reached), and the path it keeps leads to the charger,
\* not to dirt. A step() of a random agent is a random move at every level:
\* it never charges and never plans a path.
C8_LowBatteryOverride ==
    [][Stepped =>
        /\ (BatteryAware /\ battery.current <= Threshold =>
              IF Position = charger_pos(size)
              THEN /\ Position' = Position
                   /\ battery'.current =
                          Min(battery.capacity, battery.current + battery.charge_rate)
              ELSE /\ path' = <<>> \/ Last(path') = charger_pos(size)
                   /\ IF BfsDistance(grid, size, Position, charger_pos(size)) = -1
                      THEN Position' = Position /\ path' = <<>> /\ battery' = battery
                      ELSE /\ Adjacent(Position, Position')
                           /\ battery'.current = Max(0, battery.current - battery.drain_rate)
                           /\ IF path' = <<>> THEN Position' = charger_pos(size)
                                              ELSE Adjacent(Position', path'[1]))
        /\ (strategy = "random" =>
              /\ path' = <<>>
              /\ battery'.current <= battery.current
              /\ battery'.charge_cycles = battery.charge_cycles
              /\ metrics'.steps_taken = metrics.steps_taken + 1
              /\ metrics'.decisions_made # <<>>
              /\ metrics'.decisions_made[1].action = "move")]_vars

\* C8 witness: an astar or optimized agent with a level <= 20, away from the
\* start, holding a path that ends at the charger.
C8_Witness ==
    /\ BatteryAware /\ call.op = "step"
    /\ battery.current <= Threshold
    /\ Position # <<0, 0>>
    /\ path # <<>> /\ Last(path) = charger_pos(size)

\* C8 witness for random: a random agent made a step at a level <= 20.
C8_WitnessRandom ==
    /\ strategy = "random" /\ call.n >= 2
    /\ battery.current + battery.drain_rate <= Threshold

\* C9: a step() of an astar or optimized agent that is at the charger with a
\* level <= 20 raises the level by charge_rate, capped at capacity, records
\* exactly one step, labelled "charging" with the level after charging, and
\* leaves position, path and total_consumed unchanged.
C9_ChargingInPlace ==
    [][Stepped /\ BatteryAware /\ battery.current <= Threshold
              /\ Position = charger_pos(size) =>
        /\ battery'.current = Min(battery.capacity, battery.current + battery.charge_rate)
        /\ metrics'.steps_taken = metrics.steps_taken + 1
        /\ metrics'.decisions_made # <<>>
        /\ metrics'.decisions_made[1].action = "charging"
        /\ metrics'.decisions_made[1].battery = battery'.current
        /\ metrics'.decisions_made[1].position = Position
        /\ Position' = Position
        /\ path' = path
        /\ battery'.total_consumed = battery.total_consumed]_vars

\* C9 witness: the latest record is a "charging" one, made at the charger;
\* it carries the level after charging, which is above charge_rate (the
\* agent arrived with some charge left).
C9_Witness ==
    /\ BatteryAware /\ call.op = "step"
    /\ metrics.decisions_made # <<>>
    /\ metrics.decisions_made[1].action = "charging"
    /\ metrics.decisions_made[1].battery = battery.current
    /\ Position = charger_pos(size)
    /\ battery.current > battery.charge_rate

\* C10: after every step() the cell the agent stands on is not dirty and is
\* in visited.
C10_CleanAfterEveryStep ==
    call.op = "step" => grid[Position] # 1 /\ Position \in visited

\* C11: every step() records exactly one step event, so that steps_taken is
\* the number of step() calls made, and the latest event carries the position
\* and the battery level after the step, the label "move" or "charging" and
\* the name of the strategy; the steps toward the charger are included.
C11_StepEventEmission ==
    call.op = "step" =>
        /\ metrics.steps_taken = call.n
        /\ metrics.decisions_made # <<>>
        /\ metrics.decisions_made[1].step = call.n
        /\ metrics.decisions_made[1].position = Position
        /\ metrics.decisions_made[1].battery = battery.current
        /\ metrics.decisions_made[1].action \in {"move", "charging"}
        /\ metrics.decisions_made[1].strategy = strategy

-----------------------------------------------------------------------------
(* Claims about clean() called directly (SpecClean).                        *)

Cleaned == call'.op = "clean" /\ call'.cleans = call.cleans + 1

\* C12: clean() on a cell that is not dirty (clean or charger) leaves the
\* counter cleaned, the grid and the recorder's dirt_cleaned unchanged and
\* adds the position to visited; clean() on a dirty cell sets the cell to
\* clean and increments cleaned (and dirt_cleaned) by exactly 1; a clean()
\* that immediately follows a clean() changes nothing.
C12_CleaningIdempotence ==
    [][Cleaned =>
        /\ visited' = visited \cup {Position}
        /\ Position' = Position
        /\ IF grid[Position] = 1
           THEN /\ grid' = [grid EXCEPT ![Position] = 0]
                /\ cleaned' = cleaned + 1
                /\ metrics'.dirt_cleaned = metrics.dirt_cleaned + 1
           ELSE /\ grid' = grid
                /\ cleaned' = cleaned
                /\ metrics'.dirt_cleaned = metrics.dirt_cleaned
        /\ (call.op = "clean" =>
              /\ grid' = grid /\ cleaned' = cleaned /\ metrics' = metrics
              /\ visited' = visited)]_vars

\* C12 witness: one step took a low agent onto a dirty cell without cleaning
\* it; clean() was then called twice in a row, and the cell was cleaned once.
C12_Witness ==
    /\ call.op = "clean" /\ call.cleans = 2 /\ call.n = 1
    /\ Position # <<0, 0>> /\ visited = {Position}
    /\ grid[Position] = 0 /\ cleaned = 1 /\ metrics.dirt_cleaned = 1

\* C12 witness for the charger cell: clean() was called on the charger.
C12_WitnessCharger ==
    /\ call.op = "clean"
    /\ Position = charger_pos(size) /\ grid[Position] = 2
    /\ Position \in visited

-----------------------------------------------------------------------------
(* Claims about an astar agent and one dirty cell (SpecTarget).             *)

\* C13: on a grid without obstacles and with exactly one dirty cell, an
\* astar agent that starts at (0,0) with a full battery stands on that cell
\* and has cleaned it (the cell is clean, cleaned = 1) after at most size * 2
\* step() calls; this includes the dirt at (4,4) of the 5 x 5 grid.
C13_DirtTargeting ==
    call.n >= size * 2 =>
        /\ Position = goal
        /\ grid[goal] = 0
        /\ cleaned = 1

\* C13 witness: the 5 x 5 grid with the dirt at (4,4), after 10 steps: the
\* agent stands on (4,4), which it reached with 8 moves and cleaned.
C13_Witness ==
    /\ size = DefaultSize /\ goal = <<DefaultSize - 1, DefaultSize - 1>>
    /\ call.n = size * 2
    /\ Position = goal /\ grid[goal] = 0 /\ cleaned = 1
    /\ battery.total_consumed = 2 * (DefaultSize - 1)

-----------------------------------------------------------------------------
(* Further claims about the agent (Spec).                                   *)

\* C14: for every grid size the environment has exactly one charger cell,
\* the cell (size-1, size-1) that charger_pos denotes, and it is still the
\* charger after any sequence of steps.
C14_ChargerInvariant ==
    { c \in Cells(size) : grid[c] = 2 } = {charger_pos(size)}

\* C15: a step() changes at most one cell of the grid, and the only change
\* is dirty to clean on the cell the agent occupies at the end of the step;
\* obstacle, charger and clean cells never change, and the number of dirty
\* cells never increases.
C15_GridFrame ==
    [][Stepped =>
        /\ DOMAIN grid' = DOMAIN grid
        /\ \A c \in Cells(size) :
               grid'[c] # grid[c] => c = Position' /\ grid[c] = 1 /\ grid'[c] = 0
        /\ Cardinality({ c \in Cells(size) : grid'[c] # grid[c] }) <= 1
        /\ \A c \in Cells(size) : grid[c] \in {-1, 0, 2} => grid'[c] = grid[c]
        /\ Cardinality(get_dirty_cells(grid', size))
               <= Cardinality(get_dirty_cells(grid, size))]_vars

\* C15 witness: a step has cleaned the cell it ended on, another cell is
\* still dirty, and the obstacle and the charger are in place.
C15_Witness ==
    /\ call.op = "step" /\ cleaned = 1 /\ metrics.dirt_cleaned = 1
    /\ Position # <<0, 0>> /\ grid[Position] = 0
    /\ get_dirty_cells(grid, size) # {}
    /\ grid[<<ObstacleAt, ObstacleAt>>] = -1
    /\ size > MinSize /\ grid[charger_pos(size)] = 2

-----------------------------------------------------------------------------
(* Claims about epsilon (SpecSlider).                                       *)

\* C16: epsilon is at least 1.0 in every reachable state: a value below 1.0
\* given at construction is raised to 1.0, and every update through the
\* slider leaves it at 1.0 or more.
C16_EpsilonFloor == epsilon >= 10

\* C16 witness: steps were made with the epsilon the constructor set, then
\* the slider was moved to its lowest position and epsilon is 1.0.
C16_Witness ==
    /\ call.op = "slider" /\ call.slides = 1 /\ call.n >= 1
    /\ epsilon = 10

-----------------------------------------------------------------------------
(* Claims about the configuration of a battery (SpecConfig).                *)

\* C17: a battery cannot be constructed with a capacity <= 0: the
\* construction fails, so no battery state with such a capacity exists.
C17_MalformedConfigRejected == battery.capacity > 0

-----------------------------------------------------------------------------
(* Claims that compare the strategies (Spec).                               *)

OtherStrategy == IF strategy = "astar" THEN "optimized" ELSE "astar"

\* the latest event of metrics m with the name of the strategy set to strat
Renamed(m, strat) ==
    [m EXCEPT !.decisions_made = IF @ = <<>> THEN @
                                 ELSE << [@[1] EXCEPT !.strategy = strat] >>]

\* C18: from every state with a battery level >= 30, a step() of an
\* optimized agent and a step() of an astar agent produce the same next
\* state - position, path, battery, grid, cleaned, visited and recorded
\* events - except for the name of the strategy in the events: the step the
\* agent makes ends in the state the other strategy's step gives.
C18_AdaptiveEqualsWeightedSearch ==
    [][Stepped /\ BatteryAware /\ battery.current >= 30 =>
        LET other == step_of(OtherStrategy)
        IN  /\ <<x', y'>> = <<other.agent.x, other.agent.y>>
            /\ path' = other.agent.path
            /\ battery' = other.agent.battery
            /\ grid' = other.room.grid
            /\ cleaned' = other.room.cleaned
            /\ visited' = other.room.visited
            /\ Renamed(metrics', "any") = Renamed(other.room.metrics, "any")
            /\ metrics'.decisions_made # <<>>
            /\ metrics'.decisions_made[1].strategy = strategy
            /\ other.room.metrics.decisions_made[1].strategy = OtherStrategy]_vars

\* C18 witness: an optimized agent that started at level 31 has made its
\* second step at level 30, along a path to dirt farther away than the
\* cells it looks at when it conserves.
C18_Witness ==
    /\ strategy = "optimized" /\ call.op = "step" /\ call.n = 2
    /\ battery.current = 29 /\ battery.total_consumed = 2
    /\ path # <<>> /\ heuristic(Position, Last(path)) > ConserveRadius

-----------------------------------------------------------------------------
(* Claims about the course of a search (SpecSearch).                        *)

SearchLog == a_star_logged(grid, size, epsilon, start, goal)

\* the cells expanded, in the order of their expansion
Expansions(log) ==
    LET Expanded(p) == p.expanded
        pops == SelectSeq(log.pops, Expanded)
    IN  [i \in 1..Len(pops) |-> pops[i].entry[3]]

\* C19: a_star terminates for every grid, start, goal and epsilon >= 1: it
\* pops at most 1 + 4 * size^2 entries; each cell is expanded (its neighbours
\* pushed) at most once, so there are at most size^2 expansions, also when
\* a cell is queued several times. The path returned is the path of the
\* last entry popped when that is the goal, and empty otherwise.
C19_SearchTermination ==
    Searched =>
        LET log == SearchLog
            cells == Expansions(log)
        IN  /\ \A i, j \in 1..Len(cells) : cells[i] = cells[j] => i = j
            /\ Len(cells) <= size * size
            /\ Len(log.pops) <= 1 + 4 * size * size
            /\ Len(log.pushes) <= 1 + 4 * Len(cells)
            /\ result = IF log.found THEN Tail(log.pops[Len(log.pops)].entry[4]) ELSE <<>>

\* C19 witness: a search that found a path and in which a cell was queued
\* several times: an entry of an expanded cell was popped and dropped.
C19_Witness ==
    /\ Searched /\ result # <<>>
    /\ LET log == SearchLog
       IN  \E i, j \in 1..Len(log.pops) :
              /\ i < j
              /\ log.pops[i].entry[3] = log.pops[j].entry[3]
              /\ log.pops[i].expanded /\ ~log.pops[j].expanded

\* the place of entry e in the order of the heappush calls
PushIndex(log, e) == CHOOSE i \in 1..Len(log.pushes) : log.pushes[i] = e

\* C20: every heappop takes an entry whose f = g + epsilon * h is the least
\* of the frontier, and of the entries with that f the one that was pushed
\* first (FIFO tie-break by insertion order).
C20_FifoTieBreak ==
    Searched =>
        LET log == SearchLog
        IN  \A i \in 1..Len(log.pops) :
               \A o \in log.pops[i].frontier :
                   \/ log.pops[i].entry[1] < o[1]
                   \/ /\ log.pops[i].entry[1] = o[1]
                      /\ PushIndex(log, log.pops[i].entry) <= PushIndex(log, o)

\* C20 as amended: every heappop takes an entry whose f is the least of the
\* frontier; of the entries with that f it takes the one with the least g,
\* of those the one whose cell (x, y) has the least x, then the least y, and
\* of several entries for that cell the one whose path is first in the
\* order of lists.
C20_TupleTieBreak ==
    Searched =>
        LET log == SearchLog
        IN  \A i \in 1..Len(log.pops) :
               LET e == log.pops[i].entry
               IN  \A o \in log.pops[i].frontier \ {e} :
                      \/ e[1] < o[1]
                      \/ e[1] = o[1] /\ e[2] < o[2]
                      \/ e[1] = o[1] /\ e[2] = o[2] /\ e[3][1] < o[3][1]
                      \/ e[1] = o[1] /\ e[2] = o[2] /\ e[3][1] = o[3][1] /\ e[3][2] < o[3][2]
                      \/ e[1] = o[1] /\ e[2] = o[2] /\ e[3] = o[3] /\ PathLess(e[4], o[4])

\* C20 witness: a search in which an entry was popped before an entry of the
\* same f that had been pushed earlier.
C20_Witness ==
    /\ Searched
    /\ LET log == SearchLog
       IN  \E i \in 1..Len(log.pops) :
              \E o \in log.pops[i].frontier :
                  /\ o[1] = log.pops[i].entry[1]
                  /\ PushIndex(log, o) < PushIndex(log, log.pops[i].entry)

-----------------------------------------------------------------------------
(* Claims about the course of a run of the agent (Spec).                    *)

\* C21: after any sequence of step() calls, under any strategy, visited
\* contains every cell the agent has occupied so far, the start cell and the
\* cells on the way to the charger included. (That visited never loses an
\* element and cleaned never decreases is C21_Monotonic.)
C21_VisitedSet ==
    call.op = "step" => call.occupied \subseteq visited

\* the other half of C21: a step() removes nothing from visited and does
\* not lower cleaned
C21_Monotonic ==
    [][Stepped => visited \subseteq visited' /\ cleaned <= cleaned']_vars

\* the search from the agent's position to the charger finds no path
ChargerOutOfReach ==
    /\ Position # charger_pos(size)
    /\ a_star(grid, size, epsilon, Position, charger_pos(size)) = <<>>

\* C22: a step() of an astar or optimized agent that has a level <= 20, is
\* not at the charger and finds no path to the charger is made without an
\* error and leaves the position, the battery (level and total_consumed) and
\* the grid unchanged; the agent then still needs charging and still finds
\* no path, so the same holds on every later step.
C22_UnreachableCharger ==
    [][Stepped /\ BatteryAware /\ battery.current <= Threshold /\ ChargerOutOfReach =>
        /\ Position' = Position
        /\ battery'.current = battery.current
        /\ battery'.total_consumed = battery.total_consumed
        /\ grid' = grid
        /\ path' = <<>>
        /\ needs_charging(battery')
        /\ Position' # charger_pos(size)
        /\ a_star(grid', size, epsilon, <<x', y'>>, charger_pos(size)) = <<>>
        /\ size' = size /\ epsilon' = epsilon]_vars

\* C22 witness: an agent that moved away from the start, dropped to the
\* threshold, finds no path to the charger and has made several steps
\* since: the steps counted exceed the moves paid for by three or more.
C22_Witness ==
    /\ BatteryAware /\ call.op = "step"
    /\ battery.current <= Threshold /\ ChargerOutOfReach
    /\ Position # <<0, 0>>
    /\ call.n >= battery.total_consumed + 3

\* p is a contiguous route from cell c on grid g: its first cell is
\* 4-adjacent to c, consecutive cells are 4-adjacent, no cell is an obstacle
RouteFrom(g, n, c, p) ==
    /\ \A i \in 1..Len(p) : InBounds(n, p[i]) /\ g[p[i]] # -1
    /\ p # <<>> => Adjacent(c, p[1])
    /\ \A i \in 1..(Len(p) - 1) : Adjacent(p[i], p[i + 1])

\* C23, the state part: in every reachable state of an astar or optimized
\* agent the pending path is a contiguous route from the agent's position.
C23_PathIsRoute ==
    BatteryAware => RouteFrom(grid, size, Position, path)

\* C23: in every reachable state of an astar or optimized agent the pending
\* path is a contiguous route from the agent's position; hence every step()
\* changes the position by at most one 4-connected move, and the battery
\* level drops by drain_rate exactly on the steps where the position changes.
C23_PendingPathValid ==
    [][Stepped /\ BatteryAware =>
        /\ RouteFrom(grid, size, Position, path)
        /\ RouteFrom(grid', size, Position', path')
        /\ Position' = Position \/ Adjacent(Position, Position')
        /\ (Position' # Position <=>
               battery'.current = battery.current - battery.drain_rate)]_vars

-----------------------------------------------------------------------------
(* Claims about the default environment and the default battery            *)
(* (SpecDefault).                                                           *)

\* C25: an astar agent on the default 5 x 5 environment with the default
\* battery, whose step() is called again and again, eventually reaches a
\* state with no dirty cell, for every dirt placement.
C25_CleaningLiveness ==
    strategy = "astar" => <>(get_dirty_cells(grid, size) = {})

\* C25 witness: an astar agent that started with every cell dirty that can
\* be, has cleaned all of them.
C25_Witness ==
    /\ strategy = "astar" /\ call.op = "step"
    /\ get_dirty_cells(grid, size) = {}
    /\ cleaned = DefaultSize * DefaultSize - 3

-----------------------------------------------------------------------------
(* Claims about recharging (Spec).                                          *)

\* C27: for an astar or optimized agent with the default battery, once the
\* level has been at or below the threshold (<= 20) it never again exceeds
\* threshold + charge_rate (25), because the agent charges only while the
\* level is <= 20; charge_cycles stays 0 for the whole run.
C27_RechargeCeiling ==
    BatteryAware /\ battery.capacity = DefaultCapacity
                 /\ battery.drain_rate = DefaultDrainRate
                 /\ battery.charge_rate = DefaultChargeRate =>
        /\ call.low => battery.current <= 20 + 5
        /\ battery.charge_cycles = 0

\* C27 witness: an agent with the default battery that dropped to the
\* threshold away from the charger, reached the charger and has charged up
\* to 25.
C27_Witness ==
    /\ BatteryAware /\ call.op = "step" /\ call.low
    /\ battery.capacity = DefaultCapacity
    /\ battery.total_consumed >= 2
    /\ Position = charger_pos(size)
    /\ battery.current = Threshold + battery.charge_rate
    /\ metrics.decisions_made # <<>> /\ metrics.decisions_made[1].action = "charging"

====
